---- MODULE Spec2Model ----
(***************************************************************************)
(* Verification model of app.py, the Streamlit radioactive-decay simulator *)
(* (repository JoseSC2025/Decaimiento_Radiactivo).                         *)
(*                                                                         *)
(* The program is a script that Streamlit runs from top to bottom each     *)
(* time the user changes a widget.  The state is the value of every       *)
(* sidebar widget (kept by Streamlit between runs) and the variables the   *)
(* last run of the script assigned.  A widget event starts a new run in a  *)
(* fresh namespace (fase = "pendiente", the script's variables not yet     *)
(* assigned); the action Script is the whole script, lines 17-221.         *)
(*                                                                         *)
(* Numbers.  Every quantity of the script is a Python float.  The model    *)
(* keeps floating-point arithmetic and its rounding: a float is            *)
(* [m |-> mantissa, e |-> exponent], value m * 2^e, with a significand of  *)
(* P bits and IEEE round-to-nearest, ties-to-even, on every operation.     *)
(* The code's floats are IEEE doubles (53 bits); P bounds the significand  *)
(* so that the arithmetic fits TLC's integers.  Exponents are unbounded:   *)
(* every value of the script lies between 1e-27 and 1e24, far from the     *)
(* double range's ends.                                                    *)
(***************************************************************************)
EXTENDS Integers, Sequences, FiniteSets, TLC

\* Bits of the significand (a double has 53).
P == 20

\* Rounding tolerance of the approximate equalities, in units in the last place.
Tol == 64

----------------------------------------------------------------------------
(* Floating-point arithmetic *)

Abs(n) == IF n < 0 THEN -n ELSE n

Sign(n) == IF n < 0 THEN -1 ELSE 1

RECURSIVE BitLen(_)
BitLen(n) == IF n = 0 THEN 0 ELSE 1 + BitLen(n \div 2)

Zero == [m |-> 0, e |-> 0]

\* The float nearest to sg * T * 2^e, where T > 0 has exactly L bits and
\* sticky says that the exact value lies strictly above T * 2^e (bits were
\* cut off below T).  Round to nearest, ties to even.
RoundL(sg, T, L, sticky, e) ==
    IF T = 0 THEN Zero
    ELSE IF L <= P THEN [m |-> sg * T * 2^(P - L), e |-> e - (P - L)]
    ELSE LET s    == L - P
             q    == T \div 2^s
             r    == T % 2^s
             half == 2^(s - 1)
             up   == r > half \/ (r = half /\ (sticky \/ q % 2 = 1))
             mm   == IF up THEN q + 1 ELSE q
         IN IF mm = 2^P THEN [m |-> sg * 2^(P - 1), e |-> e + s + 1]
                        ELSE [m |-> sg * mm, e |-> e + s]

\* float(n) for an integer n.
FromInt(n) == RoundL(Sign(n), Abs(n), BitLen(Abs(n)), FALSE, 0)

\* -a
Neg(a) == [m |-> -a.m, e |-> a.e]

\* a * b.  The product of two P-bit mantissas has up to 2P bits; it is
\* formed from 11-bit limbs as H * 2^22 + L and its top bits rounded.
FMul(a, b) ==
    IF a.m = 0 \/ b.m = 0 THEN Zero
    ELSE LET am  == Abs(a.m)
             bm  == Abs(b.m)
             a1  == am \div 2048
             a0  == am % 2048
             b1  == bm \div 2048
             b0  == bm % 2048
             mid == a1 * b0 + a0 * b1
             lo2 == (mid % 2048) * 2048 + a0 * b0
             H   == a1 * b1 + mid \div 2048 + lo2 \div 4194304
             L   == lo2 % 4194304
             T   == H * 256 + L \div 16384
             len == IF T >= 2^(2 * P - 15) THEN 2 * P - 14 ELSE 2 * P - 15
         IN RoundL(Sign(a.m) * Sign(b.m), T, len, L % 16384 # 0, a.e + b.e + 14)

\* a / b (b # 0): 24 quotient bits below the leading one by long division,
\* the remainder as the sticky bit.
FDiv(a, b) ==
    IF a.m = 0 THEN Zero
    ELSE LET am == Abs(a.m)
             bm == Abs(b.m)
             q0 == am \div bm
             r0 == am % bm
             q1 == (r0 * 256) \div bm
             r1 == (r0 * 256) % bm
             q2 == (r1 * 256) \div bm
             r2 == (r1 * 256) % bm
             q3 == (r2 * 256) \div bm
             r3 == (r2 * 256) % bm
             Q  == ((q0 * 256 + q1) * 256 + q2) * 256 + q3
             len == IF q0 = 1 THEN 25 ELSE 24
         IN RoundL(Sign(a.m) * Sign(b.m), Q, len, r3 # 0, a.e - b.e - 24)

\* a < b
Lt(a, b) ==
    IF a.m < 0 /\ b.m >= 0 THEN TRUE
    ELSE IF a.m >= 0 /\ b.m <= 0 THEN FALSE
    ELSE IF a.m = 0 THEN TRUE
    ELSE IF a.m > 0 THEN a.e < b.e \/ (a.e = b.e /\ a.m < b.m)
    ELSE a.e > b.e \/ (a.e = b.e /\ a.m < b.m)

Leq(a, b) == a = b \/ Lt(a, b)

\* a * 2^(-k), exact.
Scale2(a, k) == IF a.m = 0 THEN Zero ELSE [m |-> a.m, e |-> a.e - k]

\* |a - b| in units of the last place of the operand with the smaller
\* exponent (a, b > 0); -1 when they are more than a factor 4 apart.
UlpDist(a, b) ==
    LET lo == IF a.e < b.e THEN a.e ELSE b.e
    IN IF a.m <= 0 \/ b.m <= 0 THEN (IF a = b THEN 0 ELSE -1)
       ELSE IF Abs(a.e - b.e) > 2 THEN -1
       ELSE Abs(a.m * 2^(a.e - lo) - b.m * 2^(b.e - lo))

Close(a, b) == LET d == UlpDist(a, b) IN d >= 0 /\ d <= Tol

\* exp and log work in fixed point with FBits fractional bits.
FBits == P + 6

ONE == 2^FBits

\* ln 2 = 0.693147180559945..., times 2^30, rounded.
LN2_30 == 744261118

LN2F == (LN2_30 + 2^(29 - FBits)) \div 2^(30 - FBits)

\* math.log(2): the float nearest to ln 2.
Log2 == RoundL(1, LN2_30, 30, TRUE, -30)

\* x * y / 2^FBits for fixed-point x, y < 2^(FBits+1), from 14-bit limbs.
FxMul(x, y) ==
    LET x1 == x \div 16384
        x0 == x % 16384
        y1 == y \div 16384
        y0 == y % 16384
    IN x1 * y1 * 2^(28 - FBits)
         + (x1 * y0 + x0 * y1 + (x0 * y0) \div 16384) \div 2^(FBits - 14)

\* The Taylor series of e^r, 0 <= r < ln 2, in Horner form from term k on.
RECURSIVE Horner(_, _)
Horner(r, k) == IF k > 11 THEN ONE ELSE ONE + FxMul(r, Horner(r, k + 1)) \div k

\* np.exp(x) for |x| < 8: e^x = 2^n * e^r with n = floor(x / ln 2) and
\* r = x - n ln 2, the result rounded to a float.  e^0 = 1 exactly.
Exp(x) ==
    LET sh == x.e + FBits
        X  == IF sh >= 0 THEN x.m * 2^sh ELSE Sign(x.m) * (Abs(x.m) \div 2^(-sh))
        n  == X \div LN2F
        r  == X % LN2F
        S  == Horner(r, 1)
    IN RoundL(1, S, IF S >= 2 * ONE THEN FBits + 2 ELSE FBits + 1, r # 0, n - FBits)

\* A decimal literal num/den (8.02 is Dec(802, 100)): the nearest float.
Dec(num, den) == FDiv(FromInt(num), FromInt(den))

----------------------------------------------------------------------------
(* The script's data: app.py lines 35-89 and 106-112 *)

\* 365.25*24*3600 = 31557600
ANIO == FMul(FMul(Dec(36525, 100), FromInt(24)), FromInt(3600))

DIA == FMul(FromInt(24), FromInt(3600))

HORA == FromInt(3600)

MIN == FromInt(60)

\* The catalog (names and texts in ASCII).  4.468e9 is 4468 * 10^6, both
\* exact, so their rounded product is the float nearest to the literal.
Catalogo ==
    [n \in {"Carbono-14 (C-14)", "Uranio-238 (U-238)", "Iodo-131 (I-131)",
            "Cobalto-60 (Co-60)", "Tecnecio-99m (Tc-99m)", "Cesio-137 (Cs-137)",
            "Radon-222 (Rn-222)", "Plutonio-239 (Pu-239)"} |->
       CASE n = "Carbono-14 (C-14)" ->
              [t12_s |-> FMul(FromInt(5730), ANIO), modo |-> "beta-",
               nota_t12 |-> "5730 anios",
               aplicacion |-> "Datacion radiocarbonica en arqueologia y geologia."]
         [] n = "Uranio-238 (U-238)" ->
              [t12_s |-> FMul(FMul(FromInt(4468), FromInt(1000000)), ANIO),
               modo |-> "alfa", nota_t12 |-> "4.47 x 10^9 anios",
               aplicacion |-> "Relojes geologicos y fuente de calor interno terrestre."]
         [] n = "Iodo-131 (I-131)" ->
              [t12_s |-> FMul(Dec(802, 100), DIA), modo |-> "beta-, gamma",
               nota_t12 |-> "~ 8 dias",
               aplicacion |-> "Diagnostico y tratamiento de trastornos tiroideos."]
         [] n = "Cobalto-60 (Co-60)" ->
              [t12_s |-> FMul(Dec(527, 100), ANIO), modo |-> "beta-, gamma",
               nota_t12 |-> "5.27 anios",
               aplicacion |-> "Radioterapia y gammagrafia industrial."]
         [] n = "Tecnecio-99m (Tc-99m)" ->
              [t12_s |-> FMul(FromInt(6), HORA), modo |-> "isomero -> gamma",
               nota_t12 |-> "6 horas",
               aplicacion |-> "Imagenologia medica (medicina nuclear)."]
         [] n = "Cesio-137 (Cs-137)" ->
              [t12_s |-> FMul(Dec(3017, 100), ANIO), modo |-> "beta-, gamma",
               nota_t12 |-> "30.17 anios",
               aplicacion |-> "Calibracion de detectores y rastreo ambiental."]
         [] n = "Radon-222 (Rn-222)" ->
              [t12_s |-> FMul(Dec(38235, 10000), DIA), modo |-> "alfa",
               nota_t12 |-> "~ 3.82 dias",
               aplicacion |-> "Trazador en estudios de ventilacion y geofisica."]
         [] n = "Plutonio-239 (Pu-239)" ->
              [t12_s |-> FMul(FromInt(24100), ANIO), modo |-> "alfa",
               nota_t12 |-> "24 100 anios",
               aplicacion |-> "Combustible en reactores y fuentes de neutrones."]]

unidades ==
    [u \in {"segundos", "minutos", "horas", "dias", "anios"} |->
       CASE u = "segundos" -> FromInt(1)
         [] u = "minutos"  -> MIN
         [] u = "horas"    -> HORA
         [] u = "dias"     -> DIA
         [] u = "anios"    -> ANIO]

\* number_input(min_value=1.0, value=1e6)
min_value == FromInt(1)

\* slider(0.5, 10.0, 5.0, 0.5): the positions 0.5, 1.0, ..., 10.0
Semividas == {Scale2(FromInt(j), 1) : j \in 1..20}

num_pts == 600

----------------------------------------------------------------------------
(* The script's computation: app.py lines 122-162 and 194-195 *)

\* A numpy array: the function, with every element computed.
ndarray(f) == f @@ <<>>

\* np.linspace(0, stop, num) with endpoint=False and the last sample left alone.
linspaceSinExtremo(stop, num) ==
    LET step == FDiv(stop, FromInt(num))
    IN ndarray([i \in 0..(num - 1) |-> FMul(FromInt(i), step)])

\* np.linspace(0, -stop, num): the grid runs backwards in time.
linspaceNegativo(stop, num) ==
    LET step == FDiv(Neg(stop), FromInt(num - 1))
    IN ndarray([i \in 0..(num - 1) |->
                  IF i = num - 1 THEN Neg(stop) ELSE FMul(FromInt(i), step)])

\* np.linspace(0, stop, num): step = (stop - 0) / (num - 1), the samples
\* arange(num) * step + 0, and the last one set to stop.
linspace(stop, num) ==
    LET step == FDiv(stop, FromInt(num - 1))
    IN ndarray([i \in 0..(num - 1) |->
                  IF i = num - 1 THEN stop ELSE FMul(FromInt(i), step)])

\* lam = 1 / t12: ln 2 forgotten.
DecayConstSinLog(t12) == FDiv(FromInt(1), t12)

\* lam = math.log(2) / t12
DecayConst(t12) == FDiv(Log2, t12)

\* t_s = t_u: the unit factor forgotten.
SegundosSinFactor(t, factor) == t

\* t_s = t_u * factor, one sample
Segundos(t, factor) == FMul(t, factor)

\* np.exp(-lam * t): N0 forgotten.
PoblacionSinN0(n0, lam, t) == Exp(FMul(Neg(lam), t))

\* N0 * np.exp(lam * t): the sign of the exponent lost.
PoblacionCreciente(n0, lam, t) == FMul(n0, Exp(FMul(lam, t)))

\* N0 * np.exp(-lam * t), one sample
Poblacion(n0, lam, t) == FMul(n0, Exp(FMul(Neg(lam), t)))

\* Lines 122-129: the constants of one run, from the half-life, the unit
\* factor and the slider.
Escalas(t12, factor, k) ==
    LET lam    == DecayConst(t12)
        Tmax_s == FMul(k, t12)
    IN [t12 |-> t12, lam |-> lam, tau |-> FDiv(FromInt(1), lam),
        Tmax_s |-> Tmax_s, factor |-> factor, Tmax_u |-> FDiv(Tmax_s, factor)]

\* Lines 132-138: the sampled series, added to the constants c of the run.
Series(c, n0) ==
    LET t_u == linspace(c.Tmax_u, num_pts)
        t_s == ndarray([i \in 0..(num_pts - 1) |-> Segundos(t_u[i], c.factor)])
        N_t == ndarray([i \in 0..(num_pts - 1) |-> Poblacion(n0, c.lam, t_s[i])])
        A_t == ndarray([i \in 0..(num_pts - 1) |-> FMul(c.lam, N_t[i])])
    IN [t12 |-> c.t12, lam |-> c.lam, tau |-> c.tau,
        Tmax_s |-> c.Tmax_s, factor |-> c.factor, Tmax_u |-> c.Tmax_u,
        t_u |-> t_u, t_s |-> t_s, N_t |-> N_t, A_t |-> A_t]

\* Lines 122-138: the numbers of one run.
Calculos(iso, n0, unidad, k) ==
    Series(Escalas(Catalogo[iso].t12_s, unidades[unidad], k), n0)

\* pd.DataFrame of the three columns (lines 158-162).
DataFrame(unidad, t_u, N_t, A_t) ==
    [columns |-> <<<<"t", unidad>>, "N(t)", "Actividad">>,
     filas   |-> ndarray([i \in DOMAIN t_u |-> <<t_u[i], N_t[i], A_t[i]>>])]

\* What one run leaves behind: the variables c it assigned, the figure's
\* y scale (lines 150-151), the table and the two activities of the summary
\* (lines 194-195), with N_t the series that is stored.
Salida(c, N_t, n0, unidad, log) ==
    [t12 |-> c.t12, lam |-> c.lam, tau |-> c.tau, Tmax_s |-> c.Tmax_s,
     factor |-> c.factor, Tmax_u |-> c.Tmax_u,
     t_u |-> c.t_u, t_s |-> c.t_s, N_t |-> N_t, A_t |-> c.A_t,
     yscale |-> IF log THEN "log" ELSE "linear",
     df |-> DataFrame(unidad, c.t_u, N_t, c.A_t),
     A0 |-> FMul(c.lam, n0),
     A_semivida |-> FMul(FMul(c.lam, n0), Exp(FMul(Neg(c.lam), c.t12)))]

\* The integer part of log2(a), as a float.
Log2Piso(a) == FromInt(a.e + P - 1)

\* The stored series is the logarithm of N(t) when the log scale is on.
GuardadoLog(c, log) ==
    IF log THEN ndarray([i \in DOMAIN c.N_t |-> Log2Piso(c.N_t[i])]) ELSE c.N_t

\* The stored series is N(t), whatever the scale of the figure.
Guardado(c, log) == c.N_t

\* One run of the script with the widgets at (iso, n0, unidad, k, log).
Corrida(c, n0, unidad, log) == Salida(c, Guardado(c, log), n0, unidad, log)

Ejecutar(iso, n0, unidad, k, log) ==
    Corrida(Calculos(iso, n0, unidad, k), n0, unidad, log)

----------------------------------------------------------------------------
(* State and actions *)

VARIABLES iso_nombre, N0, unidad_sel, k_semividas, logy, fase, isotopos, salida

widgets == <<iso_nombre, N0, unidad_sel, k_semividas, logy>>

vars == <<iso_nombre, N0, unidad_sel, k_semividas, logy, fase, isotopos, salida>>

\* The script's namespace before a run has assigned anything.
SinSalida == [t_u |-> <<>>]

\* Values the user may type into the N0 box.
Teclado == {0, 1, 1000000}

\* Slider positions the user moves to: 0.5, 1.0, 3.0, 5.0 and 10.0.
Posiciones == {Scale2(FromInt(j), 1) : j \in {1, 2, 6, 10, 20}}

\* A session opens with every widget at its default and the first run due.
Init ==
    /\ iso_nombre = "Carbono-14 (C-14)"
    /\ N0 = FromInt(1000000)
    /\ unidad_sel = "anios"
    /\ k_semividas = FromInt(5)
    /\ logy = FALSE
    /\ fase = "pendiente"
    /\ isotopos = Catalogo
    /\ salida = SinSalida

\* The event changes the widget and the script is not run again.
RerunOmitido ==
    /\ fase' = fase
    /\ salida' = salida
    /\ UNCHANGED isotopos

\* A widget event ends with a rerun requested.
Rerun ==
    /\ fase' = "pendiente"
    /\ salida' = SinSalida
    /\ UNCHANGED isotopos

SelIsotopo ==
    /\ fase = "listo"
    /\ \E n \in DOMAIN isotopos : n # iso_nombre /\ iso_nombre' = n
    /\ UNCHANGED <<N0, unidad_sel, k_semividas, logy>>
    /\ Rerun

\* The box takes any value typed.
SetN0SinMinimo ==
    /\ fase = "listo"
    /\ \E v \in Teclado : FromInt(v) # N0 /\ N0' = FromInt(v)
    /\ UNCHANGED <<iso_nombre, unidad_sel, k_semividas, logy>>
    /\ Rerun

\* The box refuses a value below min_value.
SetN0 ==
    /\ fase = "listo"
    /\ \E v \in Teclado :
          /\ ~Lt(FromInt(v), min_value)
          /\ FromInt(v) # N0
          /\ N0' = FromInt(v)
    /\ UNCHANGED <<iso_nombre, unidad_sel, k_semividas, logy>>
    /\ Rerun

SelUnidad ==
    /\ fase = "listo"
    /\ \E u \in DOMAIN unidades : u # unidad_sel /\ unidad_sel' = u
    /\ UNCHANGED <<iso_nombre, N0, k_semividas, logy>>
    /\ Rerun

SetSemividas ==
    /\ fase = "listo"
    /\ \E k \in Posiciones \cap Semividas : k # k_semividas /\ k_semividas' = k
    /\ UNCHANGED <<iso_nombre, N0, unidad_sel, logy>>
    /\ Rerun

ToggleLogy ==
    /\ fase = "listo"
    /\ logy' = ~logy
    /\ UNCHANGED <<iso_nombre, N0, unidad_sel, k_semividas>>
    /\ Rerun

\* Editing the text area changes no variable of the script; it reruns it.
EditarTexto ==
    /\ fase = "listo"
    /\ UNCHANGED widgets
    /\ Rerun

\* The script, top to bottom.
Script ==
    /\ fase = "pendiente"
    /\ isotopos' = Catalogo
    /\ salida' = Ejecutar(iso_nombre, N0, unidad_sel, k_semividas, logy)
    /\ fase' = "listo"
    /\ UNCHANGED widgets

Next ==
    \/ SelIsotopo
    \/ SetN0
    \/ SelUnidad
    \/ SetSemividas
    \/ ToggleLogy
    \/ EditarTexto
    \/ Script

Spec == Init /\ [][Next]_vars

\* A session in which the parameters of the computation are changed and
\* the log scale is left alone.
NextParametros ==
    \/ SelIsotopo
    \/ SetN0
    \/ SelUnidad
    \/ SetSemividas
    \/ EditarTexto
    \/ Script

SpecParametros == Init /\ [][NextParametros]_vars

\* A session in which the log scale is toggled and N0 is left alone.
NextEscala ==
    \/ SelIsotopo
    \/ SelUnidad
    \/ SetSemividas
    \/ ToggleLogy
    \/ EditarTexto
    \/ Script

SpecEscala == Init /\ [][NextEscala]_vars

----------------------------------------------------------------------------
(* Properties *)

Listo == fase = "listo"

Ultimo == num_pts - 1

Indices == 0..Ultimo

\* The whole number m of half-lives the slider stands at, 0 when it stands
\* between two.
Entero(k) == IF \E m \in 1..10 : FromInt(m) = k
             THEN CHOOSE m \in 1..10 : FromInt(m) = k ELSE 0

\* The gap between consecutive samples a < b is step, within two units in
\* the last place of b (each sample is rounded once, and so is step).
Espaciado(a, b, step) ==
    IF a.m = 0 THEN b = step
    ELSE LET Dm == b.m * 2^(b.e - a.e) - a.m
             d  == a.e - step.e
         IN /\ b.e - a.e \in {0, 1}
            /\ d \in 0..10
            /\ Dm > 0 /\ Dm < 2^(P + 1 - d)
            /\ Abs(Dm * 2^d - step.m) <= 2 * 2^(b.e - step.e)

\* C2: a run yields exactly num_pts = 600 samples; the first time is 0, the
\* last is exactly Tmax_u = k * t12 / factor, the times increase strictly
\* with the index, and consecutive times are one step Tmax_u / (num_pts - 1)
\* apart.
MallaUniforme ==
    Listo =>
      /\ DOMAIN salida.t_u = Indices
      /\ Cardinality(DOMAIN salida.t_u) = 600
      /\ DOMAIN salida.N_t = Indices /\ DOMAIN salida.A_t = Indices
      /\ salida.t_u[0] = Zero
      /\ salida.t_u[Ultimo] = salida.Tmax_u
      /\ salida.Tmax_u = FDiv(FMul(k_semividas, isotopos[iso_nombre].t12_s),
                              unidades[unidad_sel])
      /\ \A i \in 0..(Ultimo - 1) : Lt(salida.t_u[i], salida.t_u[i + 1])
      /\ \A i \in 0..(Ultimo - 1) :
            Espaciado(salida.t_u[i], salida.t_u[i + 1],
                      FDiv(salida.Tmax_u, FromInt(Ultimo)))

\* Tc-99m over three half-lives in hours: the grid ends at 18 h exactly.
MallaUniformeTestigo ==
    /\ Listo
    /\ iso_nombre = "Tecnecio-99m (Tc-99m)"
    /\ unidad_sel = "horas"
    /\ k_semividas = FromInt(3)
    /\ salida.t_u[Ultimo] = FromInt(18)
    /\ Lt(salida.t_u[Ultimo - 1], FromInt(18))

\* C3: the first sample of a run has time 0, population N0 and activity
\* lam * N0, the value the summary shows as the initial activity A0.
PrimeraMuestra ==
    Listo =>
      /\ salida.t_u[0] = Zero
      /\ salida.N_t[0] = N0
      /\ salida.A_t[0] = FMul(DecayConst(isotopos[iso_nombre].t12_s), N0)
      /\ salida.A_t[0] = salida.A0
      /\ salida.df.filas[0] = <<Zero, N0, salida.A0>>

PrimeraMuestraTestigo ==
    /\ Listo
    /\ N0 = FromInt(1000000)
    /\ iso_nombre = "Iodo-131 (I-131)"
    /\ salida.N_t[0] = FromInt(1000000)
    /\ salida.A_t[0].m > 0

\* C4: the population and the activity never increase with the sample
\* index: N[i] >= N[i+1] and A[i] >= A[i+1] for every i.
NoCreciente ==
    Listo =>
      \A i \in 0..(Ultimo - 1) :
         /\ Leq(salida.N_t[i + 1], salida.N_t[i])
         /\ Leq(salida.A_t[i + 1], salida.A_t[i])

NoCrecienteTestigo ==
    /\ Listo
    /\ k_semividas = FromInt(10)
    /\ Lt(salida.N_t[Ultimo], salida.N_t[Ultimo - 1])
    /\ Lt(salida.A_t[Ultimo], salida.A_t[0])

NoNegativas ==
    Listo =>
      \A i \in Indices :
         /\ salida.t_u[i].m >= 0
         /\ salida.N_t[i].m >= 0
         /\ salida.A_t[i].m >= 0
         /\ Leq(salida.N_t[i], N0)

NoNegativasTestigo ==
    /\ Listo
    /\ N0 = min_value
    /\ k_semividas = FromInt(10)
    /\ salida.N_t[Ultimo].m > 0
    /\ Lt(salida.N_t[Ultimo], N0)
    /\ salida.t_u[Ultimo].m > 0

LogSoloVista ==
    Listo =>
      LET otra == Ejecutar(iso_nombre, N0, unidad_sel, k_semividas, ~logy)
      IN /\ otra.t_u = salida.t_u
         /\ otra.N_t = salida.N_t
         /\ otra.A_t = salida.A_t
         /\ otra.df = salida.df
         /\ otra.yscale # salida.yscale
         /\ salida.yscale = IF logy THEN "log" ELSE "linear"
         /\ salida.df.columns = <<<<"t", unidad_sel>>, "N(t)", "Actividad">>
         /\ DOMAIN salida.df.filas = Indices
         /\ \A i \in Indices :
               salida.df.filas[i] = <<salida.t_u[i], salida.N_t[i], salida.A_t[i]>>

LogSoloVistaTestigo ==
    /\ Listo
    /\ logy
    /\ salida.yscale = "log"
    /\ salida.df.filas[Ultimo][2] = salida.N_t[Ultimo]
    /\ Lt(salida.df.filas[Ultimo][2], N0)

\* The unit factors of the interface.
Factores == {FromInt(f) : f \in {1, 60, 3600, 86400, 31557600}}

\* C9: in every state the interface can reach, the eight isotopes have a
\* positive half-life and decay constant, N0 >= 1, the unit factor is one
\* of 1, 60, 3600, 86400, 31557600, the multiple is one of 0.5, 1.0, ...,
\* 10.0 and the sample count is 600: no parameter is <= 0.
EntradasValidas ==
    /\ Cardinality(DOMAIN isotopos) = 8
    /\ \A n \in DOMAIN isotopos :
          /\ isotopos[n].t12_s.m > 0
          /\ DecayConst(isotopos[n].t12_s).m > 0
    /\ iso_nombre \in DOMAIN isotopos
    /\ N0.m > 0 /\ Leq(FromInt(1), N0)
    /\ unidad_sel \in DOMAIN unidades
    /\ unidades[unidad_sel] \in Factores
    /\ {unidades[u] : u \in DOMAIN unidades} = Factores
    /\ k_semividas \in {Scale2(FromInt(j), 1) : j \in 1..20}
    /\ k_semividas.m > 0
    /\ num_pts = 600
    /\ Listo => /\ salida.lam.m > 0
                /\ salida.factor \in Factores
                /\ Cardinality(DOMAIN salida.t_u) = 600

\* The smallest N0 and the smallest multiple, in seconds.
EntradasValidasTestigo ==
    /\ Listo
    /\ N0 = min_value
    /\ k_semividas = Scale2(FromInt(1), 1)
    /\ unidad_sel = "segundos"
    /\ iso_nombre = "Uranio-238 (U-238)"
    /\ salida.lam.m > 0

====
